---------------------------- MODULE Spec2Model ----------------------------
(***************************************************************************)
(* Model of samples/a2a_communication/server/__main__.py: the entry point  *)
(* of the weather agent A2A server.                                        *)
(*                                                                         *)
(* The process reads its command line and environment, creates the task    *)
(* store and the request handler, resolves the advertised URL, builds the  *)
(* Starlette application, appends the health route and serves requests.    *)
(*                                                                         *)
(* Python strings are TLA+ strings (\o is concatenation); a dict is a      *)
(* function whose DOMAIN is the set of keys present; an optional value is  *)
(* a sequence of length 0 or 1.                                            *)
(***************************************************************************)
EXTENDS Integers, Sequences, FiniteSets, TLC

VARIABLES
    pc,              \* position of the process: start, parsed, built, running, exited
    argv_host,       \* --host as given on the command line (optional string)
    argv_port,       \* --port as given on the command line (optional sequence of characters)
    environ,         \* os.environ restricted to the three variables main() reads
    host,            \* main()'s parameter host
    port,            \* main()'s parameter port (an int)
    stores,          \* every InMemoryTaskStore instance created so far (id = index)
    request_handler, \* optional A2ARequestHandler instance
    url,             \* optional: the URL main() passes to weather_agent_card
    routes,          \* app.router.routes
    bound,           \* optional (host, port) uvicorn listens on
    stdout,          \* what print() wrote
    exit_code,       \* optional process exit status
    failed,          \* which startup stage failed: none, args, setup, bind
    served,          \* optional: the last HTTP request handled
    last,            \* the call the last request made on the request handler
    response         \* optional: the last HTTP response sent

vars == <<pc, argv_host, argv_port, environ, host, port, stores, request_handler,
          url, routes, bound, stdout, exit_code, failed, served, last, response>>

---------------------------------------------------------------------------
(* Bounds of the model *)

MaxPortLen == 2      \* longest --port argument tried
MaxTasks == 2        \* number of task ids the store can hold

---------------------------------------------------------------------------
(* Inputs *)

EnvVars == {"CONTAINER_APP_NAME", "CONTAINER_APP_ENV_DNS_SUFFIX", "A2A_AGENT_HOST"}

\* values an environment variable may be set to; "" is a variable set to the empty string
EnvValues(k) ==
    CASE k = "CONTAINER_APP_NAME" -> {"", "weather"}
      [] k = "CONTAINER_APP_ENV_DNS_SUFFIX" -> {"", "blue.azurecontainerapps.io"}
      [] k = "A2A_AGENT_HOST" -> {"", "agent.example:9000"}

Environments ==
    UNION { { e \in [D -> UNION {EnvValues(k) : k \in D}] :
                \A k \in D : e[k] \in EnvValues(k) } : D \in SUBSET EnvVars }

HostArgs == {<<>>, <<"localhost">>}

PortChars == {"0", "8", "x"}

PortArgs ==
    {<<>>} \cup { <<s>> : s \in UNION { [1..n -> PortChars] : n \in 1..MaxPortLen } }

ShortPortArgs == { a \in PortArgs : IF a = <<>> THEN TRUE ELSE Len(a[1]) <= 1 }

TaskIds == 1..MaxTasks

---------------------------------------------------------------------------
(* Conversions between text and integers *)

DigitChars == <<"0", "1", "2", "3", "4", "5", "6", "7", "8", "9">>

IsDigit(c) == \E d \in 1..Len(DigitChars) : DigitChars[d] = c

DigitValue(c) == (CHOOSE d \in 1..Len(DigitChars) : DigitChars[d] = c) - 1

\* int(text) of Python for a text of decimal digits: leading zeros are dropped
RECURSIVE ParseInt(_)
ParseInt(s) ==
    IF Len(s) = 0 THEN 0
    ELSE 10 * ParseInt(SubSeq(s, 1, Len(s) - 1)) + DigitValue(s[Len(s)])

\* click's INT parameter type: int(value), a ValueError becomes a usage error
IsIntText(s) == Len(s) > 0 /\ \A i \in 1..Len(s) : IsDigit(s[i])

\* str(n) of Python for n >= 0, as used by the f-string of the fallback URL
RECURSIVE IntToStr(_)
IntToStr(n) ==
    IF n < 10 THEN DigitChars[n + 1]
    ELSE IntToStr(n \div 10) \o DigitChars[(n % 10) + 1]

---------------------------------------------------------------------------
(* The command line: @click.option('--host', default='0.0.0.0') and        *)
(* @click.option('--port', default=8080)                                   *)

DefaultHost == "0.0.0.0"

DefaultPort == 8080

\* the host main() receives
ClickHost(arg) == IF arg = <<>> THEN DefaultHost ELSE arg[1]

\* the port main() receives; the default 8080 makes the option an int option
ClickPort(arg) == IF arg = <<>> THEN DefaultPort ELSE ParseInt(arg[1])

\* click rejects the command line when --port is not an integer
ClickAccepts(arg) == IF arg = <<>> THEN TRUE ELSE IsIntText(arg[1])

---------------------------------------------------------------------------
(* URL resolution, lines 53-58 *)

\* os.environ.get(k) is truthy: k is set and its value is not the empty string
Truthy(env, k) == k \in DOMAIN env /\ env[k] # ""

ResolveUrl_AgentHostFirst(env, h, p) ==
    IF Truthy(env, "A2A_AGENT_HOST")
    THEN env["A2A_AGENT_HOST"]
    ELSE IF Truthy(env, "CONTAINER_APP_NAME") /\ Truthy(env, "CONTAINER_APP_ENV_DNS_SUFFIX")
    THEN "https://" \o env["CONTAINER_APP_NAME"] \o "." \o env["CONTAINER_APP_ENV_DNS_SUFFIX"]
    ELSE "http://" \o h \o ":" \o IntToStr(p) \o "/"

ResolveUrl_AgentHostWithSlash(env, h, p) ==
    IF Truthy(env, "CONTAINER_APP_NAME") /\ Truthy(env, "CONTAINER_APP_ENV_DNS_SUFFIX")
    THEN "https://" \o env["CONTAINER_APP_NAME"] \o "." \o env["CONTAINER_APP_ENV_DNS_SUFFIX"]
    ELSE IF Truthy(env, "A2A_AGENT_HOST")
    THEN env["A2A_AGENT_HOST"] \o "/"
    ELSE "http://" \o h \o ":" \o IntToStr(p) \o "/"

ResolveUrl_DefaultPort(env, h, p) ==
    IF Truthy(env, "CONTAINER_APP_NAME") /\ Truthy(env, "CONTAINER_APP_ENV_DNS_SUFFIX")
    THEN "https://" \o env["CONTAINER_APP_NAME"] \o "." \o env["CONTAINER_APP_ENV_DNS_SUFFIX"]
    ELSE IF Truthy(env, "A2A_AGENT_HOST")
    THEN env["A2A_AGENT_HOST"]
    ELSE "http://" \o h \o ":" \o IntToStr(DefaultPort) \o "/"

ResolveUrl_IsSet(env, h, p) ==
    IF "CONTAINER_APP_NAME" \in DOMAIN env /\ "CONTAINER_APP_ENV_DNS_SUFFIX" \in DOMAIN env
    THEN "https://" \o env["CONTAINER_APP_NAME"] \o "." \o env["CONTAINER_APP_ENV_DNS_SUFFIX"]
    ELSE IF "A2A_AGENT_HOST" \in DOMAIN env
    THEN env["A2A_AGENT_HOST"]
    ELSE "http://" \o h \o ":" \o IntToStr(p) \o "/"

ResolveUrl(env, h, p) ==
    IF Truthy(env, "CONTAINER_APP_NAME") /\ Truthy(env, "CONTAINER_APP_ENV_DNS_SUFFIX")
    THEN "https://" \o env["CONTAINER_APP_NAME"] \o "." \o env["CONTAINER_APP_ENV_DNS_SUFFIX"]
    ELSE IF Truthy(env, "A2A_AGENT_HOST")
    THEN env["A2A_AGENT_HOST"]
    ELSE "http://" \o h \o ":" \o IntToStr(p) \o "/"

\* weather_agent_card(url=url): the card served by the application advertises the URL it is given
weather_agent_card(u) == [name |-> "weather", url |-> u]

---------------------------------------------------------------------------
(* The task store and the framework's default request handler.            *)
(* A store maps task ids to task states; a task is returned as a record.   *)

EmptyStore == [i \in {} |-> "completed"]

\* what the agent executor does with a message: it leaves the task waiting
\* for input, completes it, or raises
Outcomes == {"input-required", "completed", "raise"}

Task(id, state) == [id |-> id, state |-> state]

Ok(value, store) == [kind |-> "ok", value |-> value, store |-> store]

Error(error, store) == [kind |-> "error", error |-> error, store |-> store]

\* the id given to a new task: one the store does not hold yet
NewTaskId(store) == CHOOSE id \in TaskIds \ DOMAIN store : \A j \in TaskIds \ DOMAIN store : id <= j

\* DefaultRequestHandler.on_get_task: the stored task, or a task-not-found error
Default_on_get_task(store, request) ==
    IF request.id \in DOMAIN store
    THEN Ok(Task(request.id, store[request.id]), store)
    ELSE Error("TaskNotFoundError", store)

\* DefaultRequestHandler.on_message_send: the message starts a task or continues
\* one that waits for input; the executor's result is saved in the store
Default_on_message_send(store, request, outcome) ==
    IF request.task_id = <<>>
    THEN IF outcome = "raise"
         THEN Error("InternalError", store)
         ELSE LET id == NewTaskId(store)
              IN  Ok(Task(id, outcome), (id :> outcome) @@ store)
    ELSE LET id == request.task_id[1]
         IN  IF id \notin DOMAIN store THEN Error("TaskNotFoundError", store)
             ELSE IF store[id] = "completed" THEN Error("InvalidParamsError", store)
             ELSE IF outcome = "raise" THEN Error("InternalError", store)
             ELSE Ok(Task(id, outcome), [store EXCEPT ![id] = outcome])

---------------------------------------------------------------------------
(* class A2ARequestHandler(DefaultRequestHandler), lines 21-37 *)

\* __init__: super().__init__(agent_executor, task_store); task_store is a reference
A2ARequestHandler_init(agent_executor, task_store) ==
    [agent_executor |-> agent_executor, task_store |-> task_store]

on_get_task_SwallowsError(store, request) ==
    LET r == Default_on_get_task(store, request)
    IN  IF r.kind = "error" THEN Ok(Task(request.id, "unknown"), r.store) ELSE r

on_get_task_DropsState(store, request) ==
    LET r == Default_on_get_task(store, request)
    IN  IF r.kind = "ok" THEN Ok(Task(r.value.id, "unknown"), r.store) ELSE r

\* on_get_task: return await super().on_get_task(request, *args, **kwargs)
A2ARequestHandler_on_get_task(store, request) == Default_on_get_task(store, request)

on_message_send_FreshStore(store, request, outcome) ==
    LET r == Default_on_message_send(store, request, outcome)
    IN  IF r.kind = "ok" THEN Ok(r.value, (r.value.id :> r.value.state)) ELSE r

\* on_message_send: return await super().on_message_send(request, *args, **kwargs)
A2ARequestHandler_on_message_send(store, request, outcome) ==
    Default_on_message_send(store, request, outcome)

---------------------------------------------------------------------------
(* The application's routes and Starlette's dispatch *)

\* a route whose endpoint is a function accepts GET (and so HEAD) unless told otherwise
Route(path, methods, endpoint) == [path |-> path, methods |-> methods, endpoint |-> endpoint]

\* server.build(): the routes of the protocol application
A2AStarletteApplication_build ==
    << Route("/.well-known/agent.json", {"GET", "HEAD"}, "agent_card"),
       Route("/", {"POST"}, "rpc") >>

\* Route("/_healthz", endpoint=healthz)
HealthRoute == Route("/_healthz", {"GET", "HEAD"}, "healthz")

AddRoute_Replaces(rs, r) == <<r>>

\* app.router.routes.append(r)
AddRoute(rs, r) == Append(rs, r)

healthz_Unavailable(request) == [status |-> 503, body |-> [status |-> "unavailable"]]

\* async def healthz(request): return JSONResponse({"status": "ok"})
healthz(request) == [status |-> 200, body |-> [status |-> "ok"]]

\* Router: the first route matching path and method handles the request; if
\* none does, the first route matching the path alone answers 405; else 404
Dispatch(rs, request) ==
    LET full == { i \in 1..Len(rs) :
                    rs[i].path = request.path /\ request.method \in rs[i].methods }
        partial == { i \in 1..Len(rs) : rs[i].path = request.path }
        First(S) == CHOOSE i \in S : \A j \in S : i <= j
    IN  IF full # {} THEN [match |-> "full", index |-> First(full), endpoint |-> rs[First(full)].endpoint]
        ELSE IF partial # {}
             THEN [match |-> "partial", index |-> First(partial), endpoint |-> "method_not_allowed"]
             ELSE [match |-> "none", index |-> 0, endpoint |-> "not_found"]

---------------------------------------------------------------------------
(* Exceptions and the entry point, lines 75-80 *)

Raise(type, message, code) == [type |-> type, message |-> message, code |-> code]

\* SystemExit derives from BaseException, not from Exception
IsException(type) == type # "SystemExit"

\* main is a click command called without arguments (standalone mode): click
\* reports a usage error itself and exits with the error's exit code, 2; when
\* the callback returns it exits with 0; anything else raised passes through
click_main(raised) ==
    CASE raised.type = "UsageError" -> Raise("SystemExit", "", 2)
      [] raised.type = "return" -> Raise("SystemExit", "", 0)
      [] OTHER -> raised

EntryPoint_ExitsOne(raised, out) ==
    IF IsException(raised.type)
    THEN [stdout |-> Append(out, raised.message), exit_code |-> <<1>>]
    ELSE [stdout |-> out, exit_code |-> <<raised.code>>]

\* try: main()  except Exception as e: print(e); sys.exit(0)
EntryPoint(raised, out) ==
    IF IsException(raised.type)
    THEN [stdout |-> Append(out, raised.message), exit_code |-> <<0>>]
    ELSE [stdout |-> out, exit_code |-> <<raised.code>>]

\* the process ends with what the entry point makes of something raised in main()
Exits(raised, stage) ==
    LET end == EntryPoint(click_main(raised), stdout)
    IN  /\ pc' = "exited"
        /\ stdout' = end.stdout
        /\ exit_code' = end.exit_code
        /\ failed' = stage

---------------------------------------------------------------------------
(* Requests *)

NoCall == [op |-> "none"]

RpcCalls ==
    { [method |-> "tasks/get", id |-> i] : i \in TaskIds }
    \cup { [method |-> "message/send", task_id |-> t] : t \in {<<>>} \cup { <<i>> : i \in TaskIds } }

Requests ==
    { [method |-> m, path |-> p, rpc |-> NoCall] :
        m \in {"GET", "POST"},
        p \in {"/", "/.well-known/agent.json", "/_healthz", "/tasks"} }
    \cup { [method |-> "POST", path |-> "/", rpc |-> c] : c \in RpcCalls }

\* the handler method a JSON-RPC call is routed to
Call(store, rpc, outcome) ==
    IF rpc.method = "tasks/get"
    THEN A2ARequestHandler_on_get_task(store, rpc)
    ELSE A2ARequestHandler_on_message_send(store, rpc, outcome)

\* the body of a JSON-RPC response: the result or the error, not the store
JsonRpc(r) == IF r.kind = "ok" THEN [result |-> r.value] ELSE [error |-> r.error]

---------------------------------------------------------------------------
(* The process *)

Init ==
    /\ pc = "start"
    /\ argv_host \in HostArgs
    /\ argv_port \in PortArgs
    /\ environ \in Environments
    /\ host = DefaultHost
    /\ port = DefaultPort
    /\ stores = <<>>
    /\ request_handler = <<>>
    /\ url = <<>>
    /\ routes = <<>>
    /\ bound = <<>>
    /\ stdout = <<>>
    /\ exit_code = <<>>
    /\ failed = "none"
    /\ served = <<>>
    /\ last = NoCall
    /\ response = <<>>

\* click parses the command line and calls main(host, port)
ParseArgs ==
    /\ pc = "start"
    /\ ClickAccepts(argv_port)
    /\ pc' = "parsed"
    /\ host' = ClickHost(argv_host)
    /\ port' = ClickPort(argv_port)
    /\ UNCHANGED <<argv_host, argv_port, environ, stores, request_handler, url,
                   routes, bound, stdout, exit_code, failed, served, last, response>>

\* click rejects the command line: main() is never called
ParseArgsFails ==
    /\ pc = "start"
    /\ ~ClickAccepts(argv_port)
    /\ Exits(Raise("UsageError", "Invalid value for '--port'", 2), "args")
    /\ UNCHANGED <<argv_host, argv_port, environ, host, port, stores, request_handler,
                   url, routes, bound, served, last, response>>

\* lines 47-69: the store, the handler, the URL, the card, the application, the health route
Setup ==
    /\ pc = "parsed"
    /\ pc' = "built"
    /\ stores' = Append(stores, EmptyStore)
    /\ request_handler' = <<A2ARequestHandler_init("WeatherAgentExecutor", Len(stores) + 1)>>
    /\ url' = <<ResolveUrl(environ, host, port)>>
    /\ routes' = AddRoute(A2AStarletteApplication_build, HealthRoute)
    /\ UNCHANGED <<argv_host, argv_port, environ, host, port, bound, stdout, exit_code,
                   failed, served, last, response>>

\* one of the constructors called in lines 47-64 raises
SetupRaises ==
    /\ pc = "parsed"
    /\ Exits(Raise("RuntimeError", "setup failed", 1), "setup")
    /\ UNCHANGED <<argv_host, argv_port, environ, host, port, stores, request_handler,
                   url, routes, bound, served, last, response>>

\* uvicorn.run(app, host=host, port=port): the server is listening
Run ==
    /\ pc = "built"
    /\ pc' = "running"
    /\ bound' = <<[host |-> host, port |-> port]>>
    /\ UNCHANGED <<argv_host, argv_port, environ, host, port, stores, request_handler,
                   url, routes, stdout, exit_code, failed, served, last, response>>

\* uvicorn cannot bind the address: it logs the error and calls sys.exit(1)
BindFails ==
    /\ pc = "built"
    /\ Exits(Raise("SystemExit", "", 1), "bind")
    /\ UNCHANGED <<argv_host, argv_port, environ, host, port, stores, request_handler,
                   url, routes, bound, served, last, response>>

\* the running application handles one HTTP request
HandleRequest(request, outcome) ==
    /\ pc = "running"
    /\ served' = <<request>>
    /\ LET d == Dispatch(routes, request)
           h == request_handler[1]
           store == stores[h.task_store]
       IN  CASE d.endpoint = "healthz" ->
                  /\ response' = <<healthz(request)>>
                  /\ last' = NoCall
                  /\ UNCHANGED stores
             [] d.endpoint = "agent_card" ->
                  /\ response' = <<[status |-> 200, body |-> weather_agent_card(url[1])]>>
                  /\ last' = NoCall
                  /\ UNCHANGED stores
             [] d.endpoint = "rpc" /\ request.rpc = NoCall ->
                  /\ response' = <<[status |-> 200, body |-> [error |-> "InvalidRequestError"]]>>
                  /\ last' = NoCall
                  /\ UNCHANGED stores
             [] d.endpoint = "rpc" /\ request.rpc # NoCall ->
                  /\ request.rpc.method = "message/send" /\ request.rpc.task_id = <<>>
                        => DOMAIN store # TaskIds
                  /\ LET r == Call(store, request.rpc, outcome)
                     IN  /\ stores' = [stores EXCEPT ![h.task_store] = r.store]
                         /\ last' = [op |-> request.rpc.method, request |-> request.rpc,
                                     outcome |-> outcome, before |-> store,
                                     store |-> h.task_store, result |-> r]
                         /\ response' = <<[status |-> 200, body |-> JsonRpc(r)]>>
             [] d.endpoint = "method_not_allowed" ->
                  /\ response' = <<[status |-> 405, body |-> [error |-> "Method Not Allowed"]]>>
                  /\ last' = NoCall
                  /\ UNCHANGED stores
             [] d.endpoint = "not_found" ->
                  /\ response' = <<[status |-> 404, body |-> [error |-> "Not Found"]]>>
                  /\ last' = NoCall
                  /\ UNCHANGED stores
    /\ UNCHANGED <<pc, argv_host, argv_port, environ, host, port, request_handler,
                   url, routes, bound, stdout, exit_code, failed>>

\* the server is stopped: uvicorn.run returns and main() returns
Shutdown ==
    /\ pc = "running"
    /\ Exits(Raise("return", "", 0), "none")
    /\ UNCHANGED <<argv_host, argv_port, environ, host, port, stores, request_handler,
                   url, routes, bound, served, last, response>>

\* the executor runs for message/send only
OutcomesOf(request) ==
    IF request.rpc # NoCall /\ request.rpc.method = "message/send" THEN Outcomes ELSE {"none"}

Startup ==
    \/ ParseArgs
    \/ ParseArgsFails
    \/ Setup
    \/ SetupRaises
    \/ Run
    \/ BindFails

Serve ==
    \E request \in Requests : \E outcome \in OutcomesOf(request) :
        HandleRequest(request, outcome)

\* the process started from any command line and environment, serving no request
NextStartup == Startup \/ Shutdown

SpecStartup == Init /\ [][NextStartup]_vars

\* the process started with the default host and a port argument of at most
\* one character, serving any sequence of requests
InitServe ==
    /\ Init
    /\ argv_host = <<>>
    /\ argv_port \in ShortPortArgs

Next == Startup \/ Serve \/ Shutdown

Spec == InitServe /\ [][Next]_vars

---------------------------------------------------------------------------
(* Properties of URL resolution, checked under SpecStartup *)

IsSet(k) == k \in DOMAIN environ

NonEmpty(k) == IsSet(k) /\ environ[k] # ""

PlatformUrl == "https://" \o environ["CONTAINER_APP_NAME"] \o "." \o environ["CONTAINER_APP_ENV_DNS_SUFFIX"]

FallbackUrl == "http://" \o host \o ":" \o IntToStr(port) \o "/"

\* the environment with the variables set to the empty string removed
WithoutEmpty(env) == [k \in {j \in DOMAIN env : env[j] # ""} |-> env[k]]

\* C1 as stated: whenever both platform variables are set, whatever their
\* values, the card's URL is https://{app_name}.{dns_suffix}
C1_WheneverBothSet ==
    (url # <<>> /\ IsSet("CONTAINER_APP_NAME") /\ IsSet("CONTAINER_APP_ENV_DNS_SUFFIX"))
        => url[1] = PlatformUrl

\* C1: whenever both platform variables are set to non-empty values, the
\* card's URL is https://{app_name}.{dns_suffix}, for every host and port and
\* whether or not A2A_AGENT_HOST is set
C1_PlatformPairWins ==
    (url # <<>> /\ NonEmpty("CONTAINER_APP_NAME") /\ NonEmpty("CONTAINER_APP_ENV_DNS_SUFFIX"))
        => url[1] = PlatformUrl

C1_Witness ==
    /\ url # <<>>
    /\ NonEmpty("CONTAINER_APP_NAME") /\ NonEmpty("CONTAINER_APP_ENV_DNS_SUFFIX")
    /\ NonEmpty("A2A_AGENT_HOST")
    /\ argv_host # <<>> /\ argv_port # <<>>
    /\ url[1] = "https://weather.blue.azurecontainerapps.io"

\* C2 as stated: if A2A_AGENT_HOST is the only variable set, the card's URL
\* is its value, whatever the value is
C2_WheneverOnlyAgentHostSet ==
    (url # <<>> /\ DOMAIN environ = {"A2A_AGENT_HOST"})
        => url[1] = environ["A2A_AGENT_HOST"]

\* C2: if A2A_AGENT_HOST is the only variable set and its value is not empty,
\* the card's URL is that value verbatim, for every host and port
C2_AgentHostVerbatim ==
    (url # <<>> /\ DOMAIN environ = {"A2A_AGENT_HOST"} /\ NonEmpty("A2A_AGENT_HOST"))
        => url[1] = environ["A2A_AGENT_HOST"]

C2_Witness ==
    /\ url # <<>>
    /\ DOMAIN environ = {"A2A_AGENT_HOST"}
    /\ argv_host # <<>> /\ argv_port # <<>>
    /\ url[1] = "agent.example:9000"

\* C3: with none of the three variables set, the card's URL is
\* http://{host}:{port}/ for the host and port the server binds to, which
\* default to 0.0.0.0 and 8080
C3_FallbackUrl ==
    (url # <<>> /\ DOMAIN environ = {}) =>
        /\ url[1] = FallbackUrl
        /\ bound # <<>> => bound[1] = [host |-> host, port |-> port]
        /\ argv_host # <<>> => host = argv_host[1]
        /\ argv_port # <<>> => port = ParseInt(argv_port[1])
        /\ (argv_host = <<>> /\ argv_port = <<>>) => url[1] = "http://0.0.0.0:8080/"

C3_Witness ==
    /\ pc = "running"
    /\ DOMAIN environ = {}
    /\ argv_host = <<"localhost">>
    /\ argv_port = << <<"0", "8">> >>
    /\ bound = <<[host |-> "localhost", port |-> 8]>>
    /\ url[1] = "http://localhost:8/"

\* C10: unless both platform variables are set to non-empty values no https
\* URL is built: the URL is A2A_AGENT_HOST when that is non-empty and
\* http://{host}:{port}/ otherwise; a variable set to the empty string
\* resolves exactly as the same environment with that variable unset
C10_EmptyIsUnset ==
    url # <<>> =>
        /\ ~(NonEmpty("CONTAINER_APP_NAME") /\ NonEmpty("CONTAINER_APP_ENV_DNS_SUFFIX")) =>
              url[1] =
                  IF NonEmpty("A2A_AGENT_HOST") THEN environ["A2A_AGENT_HOST"] ELSE FallbackUrl
        /\ url[1] = ResolveUrl(WithoutEmpty(environ), host, port)

C10_Witness ==
    /\ url # <<>>
    /\ NonEmpty("CONTAINER_APP_NAME")
    /\ IsSet("CONTAINER_APP_ENV_DNS_SUFFIX") /\ environ["CONTAINER_APP_ENV_DNS_SUFFIX"] = ""
    /\ IsSet("A2A_AGENT_HOST") /\ environ["A2A_AGENT_HOST"] = ""
    /\ argv_host = <<>> /\ argv_port = <<>>
    /\ url[1] = "http://0.0.0.0:8080/"

---------------------------------------------------------------------------
(* Exit codes, checked under SpecStartup *)

\* C4 as stated: every startup failure, a rejected command line and a failed
\* bind included, prints the exception and exits with code 0
C4_EveryFailureExitsZero ==
    (pc = "exited" /\ failed # "none") => (exit_code = <<0>> /\ Len(stdout) = 1)

\* C4: an exception raised in main() before the server is run is printed and
\* the process exits with code 0; a rejected command line exits with click's
\* code 2 and a failed bind with uvicorn's code 1, neither printed by the
\* entry point; a normal shutdown exits with 0
C4_ExitCodes ==
    pc = "exited" =>
        CASE failed = "setup" -> exit_code = <<0>> /\ stdout = <<"setup failed">>
          [] failed = "args" -> exit_code = <<2>> /\ stdout = <<>>
          [] failed = "bind" -> exit_code = <<1>> /\ stdout = <<>>
          [] failed = "none" -> exit_code = <<0>> /\ stdout = <<>>

C4_Witness ==
    pc = "exited" /\ failed = "setup" /\ exit_code = <<0>> /\ stdout = <<"setup failed">>

---------------------------------------------------------------------------
(* Properties of the running server, checked under Spec *)

HealthRequest == [method |-> "GET", path |-> "/_healthz", rpc |-> NoCall]

HealthOk == [status |-> 200, body |-> [status |-> "ok"]]

\* what the framework's handler returns for the recorded call
DefaultResult(call) ==
    IF call.op = "tasks/get"
    THEN Default_on_get_task(call.before, call.request)
    ELSE Default_on_message_send(call.before, call.request, call.outcome)

\* C5: in every state of the running server a GET of /_healthz is answered
\* with status 200 and body {"status": "ok"}, whatever the task store holds,
\* and answering it changes neither the stores nor the handler
C5_HealthAlwaysOk ==
    [][ (pc = "running" /\ pc' = "running" /\ served' = <<HealthRequest>>)
            => (response' = <<HealthOk>> /\ stores' = stores
                    /\ request_handler' = request_handler) ]_vars

C5_Witness ==
    /\ pc = "running"
    /\ served = <<HealthRequest>>
    /\ response = <<HealthOk>>
    /\ DOMAIN stores[1] = TaskIds

\* C6: a call of on_get_task or on_message_send on A2ARequestHandler returns
\* what DefaultRequestHandler returns for the same request on the same store,
\* and leaves the store as DefaultRequestHandler leaves it
C6_SameAsDefault ==
    last # NoCall =>
        /\ last.result = DefaultResult(last)
        /\ stores[last.store] = DefaultResult(last).store
        /\ response = <<[status |-> 200, body |-> JsonRpc(DefaultResult(last))]>>

C6_Witness ==
    /\ last # NoCall
    /\ last.op = "tasks/get"
    /\ last.result.kind = "ok"
    /\ last.result.value.state = "input-required"

\* C7: when the framework's get-task or send-message fails, the caller of
\* A2ARequestHandler gets that same error: it is not turned into a result
C7_ErrorsPropagate ==
    (last # NoCall /\ DefaultResult(last).kind = "error") =>
        /\ last.result.kind = "error"
        /\ last.result.error = DefaultResult(last).error
        /\ response[1].body = [error |-> DefaultResult(last).error]

C7_Witness ==
    /\ last # NoCall
    /\ last.op = "tasks/get"
    /\ last.before # EmptyStore
    /\ last.result.kind = "error"
    /\ last.result.error = "TaskNotFoundError"

\* C8: the process creates exactly one task store, the one request handler
\* refers to it in every call, and no step replaces the handler, adds a store
\* or drops a task the store holds
C8_OneSharedStore ==
    [][ /\ request_handler' # <<>> =>
              (Len(stores') = 1 /\ request_handler'[1].task_store = 1)
        /\ last' # NoCall => last'.store = 1
        /\ request_handler # <<>> =>
              /\ request_handler' = request_handler
              /\ Len(stores') = Len(stores)
              /\ \A id \in DOMAIN stores[1] : id \in DOMAIN stores'[1] ]_vars

C8_Witness ==
    /\ pc = "running"
    /\ Len(stores) = 1
    /\ DOMAIN stores[1] = TaskIds
    /\ last # NoCall
    /\ last.op = "tasks/get"
    /\ last.request.id = 1
    /\ last.result.kind = "ok"

\* C9: the health route is the last route of the application, after the
\* protocol routes unchanged; every request a protocol route answered before
\* the health route was added is answered by that same route, and only
\* requests for /_healthz reach the health endpoint
C9_HealthRouteLast ==
    routes # <<>> =>
        /\ routes[Len(routes)].endpoint = "healthz"
        /\ SubSeq(routes, 1, Len(routes) - 1) = A2AStarletteApplication_build
        /\ \A request \in Requests :
              LET before == Dispatch(A2AStarletteApplication_build, request)
                  after == Dispatch(routes, request)
              IN  /\ before.match # "none" => after = before
                  /\ after.endpoint = "healthz" => request.path = "/_healthz"
        /\ (served # <<>> /\ response = <<HealthOk>>) => served[1].path = "/_healthz"

C9_Witness ==
    /\ pc = "running"
    /\ served = <<[method |-> "GET", path |-> "/.well-known/agent.json", rpc |-> NoCall]>>
    /\ response = <<[status |-> 200, body |-> weather_agent_card(url[1])]>>

=============================================================================
